---- MODULE Spec2Model ----
(***************************************************************************)
(* PlaceNixConfiguration (src/action/common/place_nix_configuration.rs):   *)
(* a composite action owning two stateful child wrappers, create_directory *)
(* and create_file.  Its three async methods plan, execute and revert are  *)
(* modelled as the state machines the awaits make of them: each is an      *)
(* operator from the await the method is suspended at, and the result that *)
(* await produced, to the next thing the method does (await a child        *)
(* operation, or return).  The actions drive one method at a time through  *)
(* its awaits.  StatefulAction (try_execute / try_revert and the marker)   *)
(* and the two leaf actions are not part of the file; they are modelled    *)
(* from sections 3, 4.1 and 4.2 of the specification.                      *)
(***************************************************************************)
EXTENDS Naturals, Sequences, FiniteSets, TLC

\* ------------------------------------------------------------------ bounds

\* Longest extra_conf vector handed to plan.
MaxExtraConf == 1
\* Number of distinct leaf failures a child operation can end with.
MaxLeafErrors == 2

\* --------------------------------------------------------------- constants

NIX_CONF_FOLDER == "/etc/nix"
NIX_CONF == "/etc/nix/nix.conf"
\* 0o0755 and 0o0664
DirMode == 493
FileMode == 436

Children == {"create_directory", "create_file"}

\* The tri-state completion marker of a stateful wrapper.
ActionState == {"NotStarted", "Completed", "Reverted"}

ConfLines == {"sandbox = false"}
GroupNames == {"nixbld"}

SeqsUpTo(S, n) == UNION {[1..k -> S] : k \in 0..n}

PlanInputs ==
    [nix_build_group_name : GroupNames,
     extra_conf : SeqsUpTo(ConfLines, MaxExtraConf),
     force : BOOLEAN]

NoInputs == [nix_build_group_name |-> "", extra_conf |-> <<>>, force |-> FALSE]

\* ------------------------------------------------------------------ values

\* ActionError: a leaf failure or Child(tag, inner).
Leaf(i) == <<"Leaf", i>>
LeafErrors == {Leaf(i) : i \in 1..MaxLeafErrors}
Child(tag, inner) == <<"Child", tag, inner>>
NoErr == <<>>

\* Result<_, ActionError>; val carries the planned child wrapper of a child plan.
NoVal == [action |-> [path |-> "", mode |-> 0, force |-> FALSE, buf |-> <<>>],
          state |-> "NotStarted"]
Ok == [ok |-> TRUE, err |-> NoErr, val |-> NoVal]
Err(e) == [ok |-> FALSE, err |-> e, val |-> NoVal]

\* ActionTag of a child's concrete kind.
action_tag(c) == IF c = "create_directory" THEN "create_directory" ELSE "create_file"
PlaceNixConfigurationTag == "place_nix_configuration"

\* The await a method is suspended at: the child and the child's method.
Entry == <<"entry", "entry">>
NoArgs == NoVal.action

\* What a method does next.
Await(c, m, args) == [kind |-> "await", child |-> c, method |-> m, args |-> args, value |-> Ok]
Return(v) == [kind |-> "return", child |-> "none", method |-> "none", args |-> NoArgs, value |-> v]
Idle == [kind |-> "idle", child |-> "none", method |-> "none", args |-> NoArgs, value |-> Ok]

\* --------------------------------------------------------------- variables

VARIABLES
    self,      \* PlaceNixConfiguration: child name -> StatefulAction [action, state]
    wrapper,   \* the StatefulAction<PlaceNixConfiguration> plan returns: [planned, state]
    fs,        \* the managed paths: [dir : [exists, mode], file : [exists, mode, content]]
    frame,     \* the method of the composite that is running: [op, via, inputs]
    next,      \* what the running method does next (Await, Return) or Idle
    child,     \* the child operation being awaited: [name, method, phase, r]
    locals,    \* plan's local variables create_directory and create_file
    trace,     \* the child events of the running (or last) method, in order
    pre,       \* markers, fs and the previous call's result when the running (or last)
               \* method was called
    failed,    \* the child operation that failed in the running (or last) method
    result,    \* what the last call came to: [status, op, via, ran, value]
    disk       \* the persisted plan: [status, form, tree, restored]

vars == <<self, wrapper, fs, frame, next, child, locals, trace, pre, failed, result,
          disk>>

\* ------------------------------------------------------------ the file text

\* The configuration text plan formats (lines of buf).
ExtraConfJoined(extra_conf) == IF extra_conf = <<>> THEN <<"">> ELSE extra_conf

Buf(inputs) ==
    <<"# Generated by https://github.com/DeterminateSystems/nix-installer, version CARGO_PKG_VERSION.",
      "">>
    \o ExtraConfJoined(inputs.extra_conf)
    \o <<"",
         <<"build-users-group", inputs.nix_build_group_name>>,
         "",
         "experimental-features = nix-command flakes",
         "",
         "auto-optimise-store = true",
         "",
         "bash-prompt-prefix = (nix:$name)\\040",
         "",
         "extra-nix-path = nixpkgs=flake:nixpkgs">>

\* ------------------------------------------------- the composite's methods

\* Variants of the methods below, each changed the way a slip in the source
\* would change it; the properties at the end are checked against them as well.

\* plan going on to CreateFile::plan after CreateDirectory::plan failed.
plan_continue(at, r) ==
    CASE at = Entry ->
           Await("create_directory", "plan",
                 [path |-> NIX_CONF_FOLDER, mode |-> DirMode,
                  force |-> frame.inputs.force, buf |-> <<>>])
      [] at = <<"create_directory", "plan">> ->
           Await("create_file", "plan",
                 [path |-> NIX_CONF, mode |-> FileMode,
                  force |-> frame.inputs.force, buf |-> Buf(frame.inputs)])
      [] at = <<"create_file", "plan">> ->
           IF ~r.ok
           THEN Return(Err(Child(action_tag("create_file"), r.err)))
           ELSE Return(Ok)
      [] OTHER -> Return(Ok)

\* execute with the two children in the other order.
execute_swapped(at, r) ==
    CASE at = Entry ->
           Await("create_file", "try_execute", NoArgs)
      [] at = <<"create_file", "try_execute">> ->
           IF ~r.ok
           THEN Return(Err(Child(action_tag("create_file"), r.err)))
           ELSE Await("create_directory", "try_execute", NoArgs)
      [] at = <<"create_directory", "try_execute">> ->
           IF ~r.ok
           THEN Return(Err(Child(action_tag("create_directory"), r.err)))
           ELSE Return(Ok)
      [] OTHER -> Return(Ok)

\* execute without the `?` on create_directory: its failure is dropped.
execute_continue(at, r) ==
    CASE at = Entry ->
           Await("create_directory", "try_execute", NoArgs)
      [] at = <<"create_directory", "try_execute">> ->
           Await("create_file", "try_execute", NoArgs)
      [] at = <<"create_file", "try_execute">> ->
           IF ~r.ok
           THEN Return(Err(Child(action_tag("create_file"), r.err)))
           ELSE Return(Ok)
      [] OTHER -> Return(Ok)

\* execute wrapping create_file's failure with create_directory's tag.
execute_wrong_tag(at, r) ==
    CASE at = Entry ->
           Await("create_directory", "try_execute", NoArgs)
      [] at = <<"create_directory", "try_execute">> ->
           IF ~r.ok
           THEN Return(Err(Child(action_tag("create_directory"), r.err)))
           ELSE Await("create_file", "try_execute", NoArgs)
      [] at = <<"create_file", "try_execute">> ->
           IF ~r.ok
           THEN Return(Err(Child(action_tag("create_directory"), r.err)))
           ELSE Return(Ok)
      [] OTHER -> Return(Ok)

\* execute calling the children's execute, not their try_execute.
execute_inner(at, r) ==
    CASE at = Entry ->
           Await("create_directory", "execute", NoArgs)
      [] at = <<"create_directory", "execute">> ->
           IF ~r.ok
           THEN Return(Err(Child(action_tag("create_directory"), r.err)))
           ELSE Await("create_file", "execute", NoArgs)
      [] at = <<"create_file", "execute">> ->
           IF ~r.ok
           THEN Return(Err(Child(action_tag("create_file"), r.err)))
           ELSE Return(Ok)
      [] OTHER -> Return(Ok)

\* execute that forgets create_file.
execute_directory_only(at, r) ==
    CASE at = Entry ->
           Await("create_directory", "try_execute", NoArgs)
      [] at = <<"create_directory", "try_execute">> ->
           IF ~r.ok
           THEN Return(Err(Child(action_tag("create_directory"), r.err)))
           ELSE Return(Ok)
      [] OTHER -> Return(Ok)

\* execute reverting create_directory when create_file fails, before it returns
\* create_file's failure.
execute_rollback(at, r) ==
    CASE at = Entry ->
           Await("create_directory", "try_execute", NoArgs)
      [] at = <<"create_directory", "try_execute">> ->
           IF ~r.ok
           THEN Return(Err(Child(action_tag("create_directory"), r.err)))
           ELSE Await("create_file", "try_execute", NoArgs)
      [] at = <<"create_file", "try_execute">> ->
           IF ~r.ok
           THEN Await("create_directory", "try_revert", NoArgs)
           ELSE Return(Ok)
      [] at = <<"create_directory", "try_revert">> ->
           Return(Err(Child(action_tag("create_file"), failed.err)))
      [] OTHER -> Return(Ok)

\* revert with the two children in declared order.
revert_forward(at, r) ==
    CASE at = Entry ->
           Await("create_directory", "try_revert", NoArgs)
      [] at = <<"create_directory", "try_revert">> ->
           IF ~r.ok
           THEN Return(Err(Child(action_tag("create_directory"), r.err)))
           ELSE Await("create_file", "try_revert", NoArgs)
      [] at = <<"create_file", "try_revert">> ->
           IF ~r.ok
           THEN Return(Err(Child(action_tag("create_file"), r.err)))
           ELSE Return(Ok)
      [] OTHER -> Return(Ok)

\* revert that forgets create_directory.
revert_file_only(at, r) ==
    CASE at = Entry ->
           Await("create_file", "try_revert", NoArgs)
      [] at = <<"create_file", "try_revert">> ->
           IF ~r.ok
           THEN Return(Err(Child(action_tag("create_file"), r.err)))
           ELSE Return(Ok)
      [] OTHER -> Return(Ok)

\* revert calling the children's revert, not their try_revert.
revert_inner(at, r) ==
    CASE at = Entry ->
           Await("create_file", "revert", NoArgs)
      [] at = <<"create_file", "revert">> ->
           IF ~r.ok
           THEN Return(Err(Child(action_tag("create_file"), r.err)))
           ELSE Await("create_directory", "revert", NoArgs)
      [] at = <<"create_directory", "revert">> ->
           IF ~r.ok
           THEN Return(Err(Child(action_tag("create_directory"), r.err)))
           ELSE Return(Ok)
      [] OTHER -> Return(Ok)

\* revert going on to create_directory after create_file's try_revert failed,
\* and returning the failure afterwards.
revert_best_effort(at, r) ==
    CASE at = Entry ->
           Await("create_file", "try_revert", NoArgs)
      [] at = <<"create_file", "try_revert">> ->
           Await("create_directory", "try_revert", NoArgs)
      [] at = <<"create_directory", "try_revert">> ->
           IF failed.child # "none"
           THEN Return(Err(Child(action_tag(failed.child), failed.err)))
           ELSE Return(Ok)
      [] OTHER -> Return(Ok)

\* revert dropping the result of create_directory's try_revert.
revert_ignore_directory_error(at, r) ==
    CASE at = Entry ->
           Await("create_file", "try_revert", NoArgs)
      [] at = <<"create_file", "try_revert">> ->
           IF ~r.ok
           THEN Return(Err(Child(action_tag("create_file"), r.err)))
           ELSE Await("create_directory", "try_revert", NoArgs)
      [] at = <<"create_directory", "try_revert">> ->
           Return(Ok)
      [] OTHER -> Return(Ok)

\* The methods as the source has them.

\* PlaceNixConfiguration::plan: CreateDirectory::plan, then CreateFile::plan, each
\* failure wrapped with the child's tag and returned at once (`?`); then Ok(Self).
plan(at, r) ==
    CASE at = Entry ->
           Await("create_directory", "plan",
                 [path |-> NIX_CONF_FOLDER, mode |-> DirMode,
                  force |-> frame.inputs.force, buf |-> <<>>])
      [] at = <<"create_directory", "plan">> ->
           IF ~r.ok
           THEN Return(Err(Child(action_tag("create_directory"), r.err)))
           ELSE Await("create_file", "plan",
                      [path |-> NIX_CONF, mode |-> FileMode,
                       force |-> frame.inputs.force, buf |-> Buf(frame.inputs)])
      [] at = <<"create_file", "plan">> ->
           IF ~r.ok
           THEN Return(Err(Child(action_tag("create_file"), r.err)))
           ELSE Return(Ok)
      [] OTHER -> Return(Ok)

\* PlaceNixConfiguration::execute: create_directory.try_execute(), then
\* create_file.try_execute(), each failure wrapped with the child's tag and
\* returned at once (`?`); then Ok(()).
execute(at, r) ==
    CASE at = Entry ->
           Await("create_directory", "try_execute", NoArgs)
      [] at = <<"create_directory", "try_execute">> ->
           IF ~r.ok
           THEN Return(Err(Child(action_tag("create_directory"), r.err)))
           ELSE Await("create_file", "try_execute", NoArgs)
      [] at = <<"create_file", "try_execute">> ->
           IF ~r.ok
           THEN Return(Err(Child(action_tag("create_file"), r.err)))
           ELSE Return(Ok)
      [] OTHER -> Return(Ok)

\* PlaceNixConfiguration::revert: create_file.try_revert(), then
\* create_directory.try_revert(), each failure wrapped with the child's tag and
\* returned at once (`?`); then Ok(()).
revert(at, r) ==
    CASE at = Entry ->
           Await("create_file", "try_revert", NoArgs)
      [] at = <<"create_file", "try_revert">> ->
           IF ~r.ok
           THEN Return(Err(Child(action_tag("create_file"), r.err)))
           ELSE Await("create_directory", "try_revert", NoArgs)
      [] at = <<"create_directory", "try_revert">> ->
           IF ~r.ok
           THEN Return(Err(Child(action_tag("create_directory"), r.err)))
           ELSE Return(Ok)
      [] OTHER -> Return(Ok)

\* The running method's next step.
Step(op, at, r) ==
    CASE op = "plan" -> plan(at, r)
      [] op = "execute" -> execute(at, r)
      [] op = "revert" -> revert(at, r)
      [] OTHER -> Idle

\* ------------------------------------------------------- the leaf actions

NoDir == [exists |-> FALSE, mode |-> 0]
NoFile == [exists |-> FALSE, mode |-> 0, content |-> <<>>]

\* Whether the leaf's inner operation can succeed on this file system: a file is
\* only written into a directory that exists.
LeafCanSucceed(c, inner, f) ==
    IF c = "create_file" /\ inner = "execute" THEN f.dir.exists ELSE TRUE

\* The file system after the leaf's inner operation succeeded.  A failed
\* operation applies nothing.  Removing what is already absent is no error.
LeafEffect(c, inner, action, f) ==
    CASE c = "create_directory" /\ inner = "execute" ->
           [f EXCEPT !.dir = [exists |-> TRUE, mode |-> action.mode]]
      [] c = "create_file" /\ inner = "execute" ->
           [f EXCEPT !.file = [exists |-> TRUE, mode |-> action.mode,
                               content |-> action.buf]]
      [] c = "create_file" /\ inner = "revert" ->
           [f EXCEPT !.file = NoFile]
      [] c = "create_directory" /\ inner = "revert" ->
           [dir |-> NoDir, file |-> NoFile]
      [] OTHER -> f

\* ---------------------------------------------------- the stateful wrapper

\* The inner operation a wrapper method calls.
Inner(m) ==
    CASE m \in {"try_execute", "execute"} -> "execute"
      [] m \in {"try_revert", "revert"} -> "revert"
      [] OTHER -> "plan"

\* try_execute is a no-op on a Completed wrapper; try_revert is a no-op on a
\* wrapper that is not Completed.
TrySkips(m, state) ==
    \/ m = "try_execute" /\ state = "Completed"
    \/ m = "try_revert" /\ state # "Completed"

\* The marker after the wrapper method's inner operation succeeded; a failure
\* leaves the marker as it is, and so does a call of the inner operation itself.
MarkerAfter(m, state) ==
    CASE m = "try_execute" -> "Completed"
      [] m = "try_revert" -> "Reverted"
      [] OTHER -> state

\* ------------------------------------------------------------ the machine

NoChild == [name |-> "none", method |-> "none", phase |-> "none", r |-> Ok]
NoFailed == [child |-> "none", method |-> "none", err |-> NoErr]
NoFrame == [op |-> "none", via |-> "none", inputs |-> NoInputs]
NoResult == [status |-> "none", op |-> "none", via |-> "none", ran |-> FALSE, value |-> Ok]
Unplanned == [c \in Children |-> NoVal]

Snapshot == [state |-> [c \in Children |-> self[c].state],
             wrapper |-> wrapper.state,
             fs |-> fs,
             prev |-> [status |-> result.status, op |-> result.op,
                       via |-> result.via, ok |-> result.value.ok]]

IsTry(m) == m \in {"try_execute", "try_revert"}

\* ---------------------------------------------------- the persisted plan

\* The fields of PlaceNixConfiguration, in declared order.
Fields_swapped == <<"create_file", "create_directory">>

Fields == <<"create_directory", "create_file">>

\* The name the action is registered and serialized under.
TypetagName == "place_nix_configuration"

\* The tags the registry can decode.
Registry == {TypetagName}

\* The value under a key of a serialized map (a sequence of key/value pairs).
Keys(pairs) == {pairs[i][1] : i \in DOMAIN pairs}
Lookup(pairs, key) == pairs[CHOOSE i \in DOMAIN pairs : pairs[i][1] = key][2]

\* A child wrapper as a map of its action data and its marker.
SerializeChild(w) == << <<"action", w.action>>, <<"state", w.state>> >>
DeserializeChild(pairs) ==
    [action |-> Lookup(pairs, "action"), state |-> Lookup(pairs, "state")]

\* The wrapper tree as the serialized form: the wrapper's map of its action,
\* tagged with the action's registered name, and its marker; the action's own
\* map holds its fields in declared order.
Serialize(w, children) ==
    << <<"action",
         <<TypetagName,
           [i \in 1..Len(Fields) |-> <<Fields[i], SerializeChild(children[Fields[i]])>>]>> >>,
       <<"state", w>> >>

NoTree == [wrapper |-> "NotStarted", self |-> Unplanned]
Decoded(tag, order, tree) ==
    [ok |-> TRUE, err |-> "", tag |-> tag, order |-> order, tree |-> tree]
DecodeError(e) ==
    [ok |-> FALSE, err |-> e, tag |-> "", order |-> <<>>, tree |-> NoTree]

\* The serialized form read back: the tag is looked up in the registry, the
\* fields are decoded by name.
Deserialize(form) ==
    LET tagged == Lookup(form, "action")
        tag == tagged[1]
        body == tagged[2]
    IN IF tag \notin Registry THEN DecodeError("UnknownActionKind")
       ELSE IF \E c \in Children : c \notin Keys(body) THEN DecodeError("missing field")
       ELSE Decoded(tag,
                    [i \in DOMAIN body |-> body[i][1]],
                    [wrapper |-> Lookup(form, "state"),
                     self |-> [c \in Children |-> DeserializeChild(Lookup(body, c))]])

NoDisk == [status |-> "none", form |-> <<>>, tree |-> NoTree,
           restored |-> DecodeError("")]


Init ==
    /\ self = Unplanned
    /\ wrapper = [planned |-> FALSE, state |-> "NotStarted"]
    /\ fs = [dir |-> NoDir, file |-> NoFile]
    /\ frame = NoFrame
    /\ next = Idle
    /\ child = NoChild
    /\ locals = Unplanned
    /\ trace = <<>>
    /\ pre = [state |-> [c \in Children |-> "NotStarted"],
              wrapper |-> "NotStarted",
              fs |-> [dir |-> NoDir, file |-> NoFile],
              prev |-> [status |-> "none", op |-> "none", via |-> "none", ok |-> TRUE]]
    /\ failed = NoFailed
    /\ result = NoResult
    /\ disk = NoDisk

\* A method of the composite is entered: it runs up to its first await.
Begin(op, via, inputs) ==
    /\ frame' = [op |-> op, via |-> via, inputs |-> inputs]
    /\ next' = Await("entry", "entry", NoArgs)
    /\ child' = [name |-> "entry", method |-> "entry", phase |-> "returned", r |-> Ok]
    /\ locals' = Unplanned
    /\ trace' = <<>>
    /\ pre' = Snapshot
    /\ failed' = NoFailed
    /\ result' = NoResult
    /\ UNCHANGED <<self, wrapper, fs, disk>>

\* A wrapper method that is a no-op on the composite's marker returns Ok at once.
NoOp(op) ==
    /\ trace' = <<>>
    /\ pre' = Snapshot
    /\ failed' = NoFailed
    /\ result' = [status |-> "returned", op |-> op, via |-> "wrapper", ran |-> FALSE,
                  value |-> Ok]
    /\ UNCHANGED <<self, wrapper, fs, frame, next, child, locals, disk>>

\* PlaceNixConfiguration::plan(nix_build_group_name, extra_conf, force) is called.
CallPlan ==
    /\ frame.op = "none"
    /\ ~wrapper.planned
    /\ disk.status # "saved"
    /\ \E inputs \in PlanInputs : Begin("plan", "direct", inputs)

\* execute is called on the action itself.
CallExecute ==
    /\ frame.op = "none"
    /\ wrapper.planned
    /\ Begin("execute", "direct", NoInputs)

\* revert is called on the action itself.
CallRevert ==
    /\ frame.op = "none"
    /\ wrapper.planned
    /\ Begin("revert", "direct", NoInputs)

\* try_execute is called on the wrapper plan returned.
CallTryExecute ==
    /\ frame.op = "none"
    /\ wrapper.planned
    /\ IF TrySkips("try_execute", wrapper.state)
       THEN NoOp("execute")
       ELSE Begin("execute", "wrapper", NoInputs)

\* try_revert is called on the wrapper plan returned.
CallTryRevert ==
    /\ frame.op = "none"
    /\ wrapper.planned
    /\ IF TrySkips("try_revert", wrapper.state)
       THEN NoOp("revert")
       ELSE Begin("revert", "wrapper", NoInputs)

\* The awaited child operation is called: a try_ method that is a no-op on the
\* child's marker returns Ok at once, anything else begins the inner operation.
ChildCall ==
    /\ next.kind = "await"
    /\ child.phase = "none"
    /\ LET c == next.child
           m == next.method
           called == IF IsTry(m) THEN <<<<c, m, "call">>>> ELSE <<>>
       IN IF IsTry(m) /\ TrySkips(m, self[c].state)
          THEN /\ child' = [name |-> c, method |-> m, phase |-> "returned", r |-> Ok]
               /\ trace' = trace \o called \o <<<<c, m, "ok">>>>
          ELSE /\ child' = [name |-> c, method |-> m, phase |-> "inflight", r |-> Ok]
               /\ trace' = trace \o called \o <<<<c, Inner(m), "begin">>>>
    /\ UNCHANGED <<self, wrapper, fs, frame, next, locals, pre, failed, result, disk>>

\* The inner operation in flight succeeds: its effect is applied and the child's
\* marker set; a child plan yields the child's wrapper.
ChildSucceeds ==
    /\ child.phase = "inflight"
    /\ LET c == child.name
           m == child.method
           inner == Inner(m)
           returned == IF IsTry(m) THEN <<<<c, m, "ok">>>> ELSE <<>>
       IN /\ inner # "plan" => LeafCanSucceed(c, inner, fs)
          /\ fs' = IF inner = "plan" THEN fs ELSE LeafEffect(c, inner, self[c].action, fs)
          /\ self' = IF inner = "plan" THEN self
                     ELSE [self EXCEPT ![c].state = MarkerAfter(m, @)]
          /\ locals' = IF inner = "plan"
                       THEN [locals EXCEPT ![c] = [action |-> next.args, state |-> "NotStarted"]]
                       ELSE locals
          /\ child' = [child EXCEPT !.phase = "returned", !.r = Ok]
          /\ trace' = trace \o <<<<c, inner, "ok">>>> \o returned
    /\ UNCHANGED <<wrapper, frame, next, pre, failed, result, disk>>

\* The inner operation in flight fails with a leaf error: nothing is applied, the
\* marker is left as it is and the wrapper hands the error on unchanged.
ChildFails ==
    /\ child.phase = "inflight"
    /\ \E e \in LeafErrors :
         LET c == child.name
             m == child.method
             inner == Inner(m)
             returned == IF IsTry(m) THEN <<<<c, m, "err">>>> ELSE <<>>
         IN /\ child' = [child EXCEPT !.phase = "returned", !.r = Err(e)]
            /\ failed' = [child |-> c, method |-> inner, err |-> e]
            /\ trace' = trace \o <<<<c, inner, "err">>>> \o returned
    /\ UNCHANGED <<self, wrapper, fs, frame, next, locals, pre, result, disk>>

\* The awaited operation has returned: the method runs on to its next await or
\* to its return.
Resume ==
    /\ frame.op # "none"
    /\ next.kind = "await"
    /\ child.phase = "returned"
    /\ next' = Step(frame.op, <<child.name, child.method>>, child.r)
    /\ child' = NoChild
    /\ UNCHANGED <<self, wrapper, fs, frame, locals, trace, pre, failed, result, disk>>

\* plan returns: Ok(Self { create_directory, create_file }.into()), or the error.
PlanReturns ==
    /\ frame.op = "plan"
    /\ next.kind = "return"
    /\ result' = [status |-> "returned", op |-> "plan", via |-> frame.via,
                  ran |-> TRUE, value |-> next.value]
    /\ self' = IF next.value.ok THEN locals ELSE self
    /\ wrapper' = IF next.value.ok
                  THEN [planned |-> TRUE, state |-> "NotStarted"]
                  ELSE wrapper
    /\ frame' = NoFrame
    /\ next' = Idle
    /\ locals' = Unplanned
    /\ UNCHANGED <<fs, child, trace, pre, failed, disk>>

\* execute or revert, called on the action itself, returns to its caller.
MethodReturns ==
    /\ frame.op \in {"execute", "revert"}
    /\ frame.via = "direct"
    /\ next.kind = "return"
    /\ result' = [status |-> "returned", op |-> frame.op, via |-> "direct",
                  ran |-> TRUE, value |-> next.value]
    /\ frame' = NoFrame
    /\ next' = Idle
    /\ UNCHANGED <<self, wrapper, fs, child, locals, trace, pre, failed, disk>>

\* execute or revert returns to the composite's wrapper: on success the wrapper
\* sets its marker, on failure it leaves it and hands the error on unchanged.
WrapperReturns ==
    /\ frame.op \in {"execute", "revert"}
    /\ frame.via = "wrapper"
    /\ next.kind = "return"
    /\ result' = [status |-> "returned", op |-> frame.op, via |-> "wrapper",
                  ran |-> TRUE, value |-> next.value]
    /\ wrapper' = IF next.value.ok
                  THEN [wrapper EXCEPT !.state =
                          MarkerAfter(IF frame.op = "execute" THEN "try_execute"
                                      ELSE "try_revert", @)]
                  ELSE wrapper
    /\ frame' = NoFrame
    /\ next' = Idle
    /\ UNCHANGED <<self, fs, child, locals, trace, pre, failed, disk>>

\* The process is interrupted between two sibling operations of execute or
\* revert: the method never returns; the markers and the file system stay.
Interrupt ==
    /\ frame.op \in {"execute", "revert"}
    /\ next.kind = "await"
    /\ child.phase = "none"
    /\ trace # <<>>
    /\ result' = [status |-> "interrupted", op |-> frame.op, via |-> frame.via,
                  ran |-> TRUE, value |-> Ok]
    /\ frame' = NoFrame
    /\ next' = Idle
    /\ UNCHANGED <<self, wrapper, fs, child, locals, trace, pre, failed, disk>>

Next ==
    \/ CallPlan
    \/ CallExecute
    \/ CallRevert
    \/ CallTryExecute
    \/ CallTryRevert
    \/ ChildCall
    \/ ChildSucceeds
    \/ ChildFails
    \/ Resume
    \/ PlanReturns
    \/ MethodReturns
    \/ WrapperReturns
    \/ Interrupt

Spec == Init /\ [][Next]_vars

\* Only the wrapper plan returned is used: try_execute and try_revert on it,
\* in any order, with any child failures, each call running to its return.
NextWrapper ==
    \/ CallPlan
    \/ CallTryExecute
    \/ CallTryRevert
    \/ ChildCall
    \/ ChildSucceeds
    \/ ChildFails
    \/ Resume
    \/ PlanReturns
    \/ WrapperReturns

SpecWrapper == Init /\ [][NextWrapper]_vars

\* The process writes the wrapper tree to disk and stops: the serialized plan is
\* all that is left of it.
Save ==
    /\ frame.op = "none"
    /\ wrapper.planned
    /\ disk' = [status |-> "saved",
                form |-> Serialize(wrapper.state, self),
                tree |-> [wrapper |-> wrapper.state, self |-> self],
                restored |-> DecodeError("")]
    /\ wrapper' = [planned |-> FALSE, state |-> "NotStarted"]
    /\ self' = Unplanned
    /\ UNCHANGED <<fs, frame, next, child, locals, trace, pre, failed, result>>

\* A process starts and reads the persisted plan back through the registry.
Load ==
    /\ frame.op = "none"
    /\ disk.status = "saved"
    /\ LET d == Deserialize(disk.form)
       IN /\ disk' = [disk EXCEPT !.status = IF d.ok THEN "loaded" ELSE "failed",
                                  !.restored = d]
          /\ wrapper' = IF d.ok THEN [planned |-> TRUE, state |-> d.tree.wrapper]
                        ELSE wrapper
          /\ self' = IF d.ok THEN d.tree.self ELSE self
    /\ UNCHANGED <<fs, frame, next, child, locals, trace, pre, failed, result>>

\* The program with its plan persisted and read back between calls.
NextPersist ==
    \/ Next
    \/ Save
    \/ Load

SpecPersist == Init /\ [][NextPersist]_vars

\* ------------------------------------------------------------ type invariant

TypeOK ==
    /\ \A c \in Children : self[c].state \in ActionState
    /\ wrapper.state \in ActionState
    /\ frame.op \in {"none", "plan", "execute", "revert"}
    /\ next.kind \in {"idle", "await", "return"}
    /\ child.phase \in {"none", "inflight", "returned"}
    /\ (frame.op = "none") = (next.kind = "idle")
    /\ Len(trace) <= 8

\* ------------------------------------------------------------- properties

Has(ev) == \E i \in DOMAIN trace : trace[i] = ev

\* Every occurrence of event `later` in the trace has an `earlier` before it.
Preceded(later, earlier) ==
    \A i \in DOMAIN trace :
        trace[i] = later => \E j \in 1..(i - 1) : trace[j] \in earlier

\* The child has an operation in flight: its last event is a call or a begin.
InFlight(c) ==
    \E i \in DOMAIN trace :
        /\ trace[i][1] = c
        /\ trace[i][3] \in {"call", "begin"}
        /\ \A j \in (i + 1)..Len(trace) : trace[j][1] # c

\* The last call has returned to its caller.
Returned == frame.op = "none" /\ result.status = "returned"

\* The method the trace belongs to: the one running, or the last one that ran.
TraceOp ==
    IF frame.op # "none" THEN frame.op
    ELSE IF result.ran THEN result.op ELSE "none"

\* C1: in every run of execute the children are executed in declared order: the
\* inner execute of create_file, and the call of its try_execute, never begin
\* unless create_directory's try_execute has returned Ok before, and the two
\* children never have an operation in flight at the same time.
C1_ExecuteInDeclaredOrder ==
    /\ Preceded(<<"create_file", "execute", "begin">>,
                {<<"create_directory", "try_execute", "ok">>})
    /\ Preceded(<<"create_file", "try_execute", "call">>,
                {<<"create_directory", "try_execute", "ok">>})
    /\ ~(InFlight("create_directory") /\ InFlight("create_file"))

C1_Witness ==
    /\ frame.op = "execute"
    /\ child.phase = "inflight"
    /\ child.name = "create_file"
    /\ Has(<<"create_directory", "execute", "ok">>)

\* C2: in every run of revert the children are reverted in reverse declared
\* order: the inner revert of create_directory, and the call of its try_revert,
\* never begin unless create_file's try_revert has returned before.
C2_RevertInReverseOrder ==
    /\ Preceded(<<"create_directory", "revert", "begin">>,
                {<<"create_file", "try_revert", "ok">>,
                 <<"create_file", "try_revert", "err">>})
    /\ Preceded(<<"create_directory", "try_revert", "call">>,
                {<<"create_file", "try_revert", "ok">>,
                 <<"create_file", "try_revert", "err">>})

C2_Witness ==
    /\ frame.op = "revert"
    /\ child.phase = "inflight"
    /\ child.name = "create_directory"
    /\ Has(<<"create_file", "revert", "ok">>)

\* C3: if create_directory's try_execute fails during execute, execute stops
\* there: create_file's try_execute is never attempted, create_file's marker and
\* the file on disk are as they were when execute was called, and what execute
\* returns is an error.
C3_DirectoryFailureStopsExecute ==
    Has(<<"create_directory", "try_execute", "err">>) =>
        /\ ~Has(<<"create_file", "try_execute", "call">>)
        /\ ~Has(<<"create_file", "execute", "begin">>)
        /\ self["create_file"].state = pre.state["create_file"]
        /\ fs.file = pre.fs.file
        /\ next.kind = "return" => ~next.value.ok
        /\ frame.op = "none" => (result.status = "returned" /\ ~result.value.ok)

C3_Witness ==
    /\ Has(<<"create_directory", "try_execute", "err">>)
    /\ Returned
    /\ result.op = "execute"
    /\ ~result.value.ok

\* The state a failed or interrupted execute leaves, seen when the next method
\* is called: create_directory Completed, create_file not.
PartialPre ==
    /\ pre.state["create_directory"] = "Completed"
    /\ pre.state["create_file"] # "Completed"

NoChildCompleted == \A c \in Children : self[c].state # "Completed"

\* An execute that has returned create_file's failure leaves create_directory
\* marked Completed.
C4_DirectoryStaysCompleted ==
    (Returned /\ TraceOp = "execute" /\ Has(<<"create_file", "try_execute", "err">>)) =>
        self["create_directory"].state = "Completed"

\* A revert called in that state has, when it returns, called the inner revert
\* of create_directory and of no other child.
C4_RevertsDirectoryOnly ==
    (Returned /\ TraceOp = "revert" /\ PartialPre) =>
        /\ Has(<<"create_directory", "revert", "begin">>)
        /\ ~Has(<<"create_file", "revert", "begin">>)

\* C4 as claimed: after create_directory succeeded and create_file failed,
\* create_directory stays Completed, and a following revert calls the inner
\* revert of create_directory only, after which no child is marked Completed and
\* neither the directory nor the file remains.
C4_AsClaimed ==
    /\ C4_DirectoryStaysCompleted
    /\ C4_RevertsDirectoryOnly
    /\ (Returned /\ TraceOp = "revert" /\ PartialPre) =>
          /\ NoChildCompleted
          /\ ~fs.dir.exists
          /\ ~fs.file.exists

\* C4 amended: as claimed, with the final state promised only when the revert
\* returned Ok; when create_directory's inner revert fails, the directory stays
\* and create_directory stays marked Completed.
C4_PartialFailureCleanup ==
    /\ C4_DirectoryStaysCompleted
    /\ C4_RevertsDirectoryOnly
    /\ (Returned /\ TraceOp = "revert" /\ PartialPre) =>
          IF result.value.ok
          THEN /\ NoChildCompleted
               /\ ~fs.dir.exists
               /\ ~fs.file.exists
          ELSE /\ self["create_directory"].state = "Completed"
               /\ fs.dir.exists

C4_Witness ==
    /\ Returned
    /\ TraceOp = "revert"
    /\ PartialPre
    /\ pre.state["create_file"] = "NotStarted"
    /\ result.value.ok
    /\ Has(<<"create_directory", "revert", "ok">>)

\* C5: every error plan, execute or revert returns is Child(tag, inner) with the
\* tag of the child whose operation failed and that child's error unchanged, and
\* a method in which a child operation failed does not return Ok.
C5_ErrorAttribution ==
    /\ next.kind = "return" =>
          IF next.value.ok
          THEN failed.child = "none"
          ELSE /\ failed.child \in Children
               /\ next.value.err = Child(action_tag(failed.child), failed.err)
    /\ (Returned /\ result.ran) =>
          IF result.value.ok
          THEN failed.child = "none"
          ELSE /\ failed.child \in Children
               /\ failed.err \in LeafErrors
               /\ result.value.err = <<"Child", failed.child, failed.err>>

C5_Witness ==
    /\ Returned
    /\ result.op = "execute"
    /\ ~result.value.ok
    /\ failed.child = "create_file"
    /\ result.value.err = <<"Child", "create_file", Leaf(2)>>

\* What a successful execute leaves, seen when the next method is called: the
\* directory and the file are in place.
ExecutedPre == pre.fs.dir.exists /\ pre.fs.file.exists

SecondExecution == Returned /\ result.op = "execute" /\ ExecutedPre

\* The second execution calls no inner execute, returns Ok and leaves the
\* children's markers and the file system as they were.
C6_ChildrenUntouched ==
    SecondExecution =>
        /\ \A c \in Children : ~Has(<<c, "execute", "begin">>)
        /\ result.value.ok
        /\ \A c \in Children : self[c].state = pre.state[c]
        /\ fs = pre.fs

C7_Resumable ==
    (TraceOp = "execute" /\ PartialPre) =>
        /\ ~Has(<<"create_directory", "execute", "begin">>)
        /\ Returned => Has(<<"create_file", "execute", "begin">>)
        /\ (Returned /\ Has(<<"create_file", "execute", "ok">>)) =>
              /\ result.value.ok
              /\ \A c \in Children : self[c].state = "Completed"
              /\ fs.dir.exists /\ fs.file.exists

C7_Witness ==
    /\ TraceOp = "execute"
    /\ PartialPre
    /\ Returned
    /\ result.value.ok
    /\ Has(<<"create_file", "execute", "ok">>)

\* C8: plan calls CreateDirectory::plan before CreateFile::plan, never calls
\* CreateFile::plan after CreateDirectory::plan failed, and when a child plan
\* failed returns that failure wrapped with the child's tag and no wrapper:
\* nothing is planned, whole or in part.
C8_PlanAllOrNothing ==
    /\ Preceded(<<"create_file", "plan", "begin">>,
                {<<"create_directory", "plan", "ok">>})
    /\ Has(<<"create_directory", "plan", "err">>) =>
          ~Has(<<"create_file", "plan", "begin">>)
    /\ (TraceOp = "plan" /\ failed.child # "none") =>
          /\ ~wrapper.planned
          /\ self = Unplanned
          /\ Returned =>
                /\ ~result.value.ok
                /\ result.value.err = <<"Child", failed.child, failed.err>>
    /\ (Returned /\ result.op = "plan") => (wrapper.planned = result.value.ok)
    /\ wrapper.planned =>
          /\ self["create_directory"].action.path = "/etc/nix"
          /\ self["create_file"].action.path = "/etc/nix/nix.conf"

C8_Witness ==
    /\ Returned
    /\ result.op = "plan"
    /\ failed.child = "create_file"
    /\ Has(<<"create_directory", "plan", "ok">>)
    /\ ~wrapper.planned

\* C9: a revert called when both children are Completed (after a successful
\* execute) that returns Ok has removed the file and then the directory: the
\* file system is as it was before execute, with neither path present, and
\* neither child is marked Completed.
C9_RevertUndoesExecute ==
    (Returned /\ TraceOp = "revert" /\ ExecutedPre /\ result.value.ok) =>
        /\ fs = [dir |-> NoDir, file |-> NoFile]
        /\ NoChildCompleted
        /\ Has(<<"create_file", "revert", "ok">>)
        /\ Preceded(<<"create_directory", "revert", "begin">>,
                    {<<"create_file", "revert", "ok">>})
        /\ Has(<<"create_directory", "revert", "ok">>)

C9_Witness ==
    /\ Returned
    /\ TraceOp = "revert"
    /\ ExecutedPre
    /\ \A c \in Children : pre.state[c] = "Completed"
    /\ result.value.ok
    /\ pre.fs.file.exists
    /\ ~fs.dir.exists

\* An execute that has returned create_file's failure.
FailedAtFile ==
    /\ Returned
    /\ TraceOp = "execute"
    /\ Has(<<"create_file", "try_execute", "err">>)

\* C10 as claimed: when execute fails at create_file after create_directory has
\* completed, a revert of create_directory is attempted before the error
\* reaches the caller of execute.
C10_AsClaimed ==
    FailedAtFile => Has(<<"create_directory", "try_revert", "call">>)

\* C10 amended: when execute fails at create_file after create_directory has
\* completed, execute attempts no rollback: it returns create_file's failure
\* wrapped with create_file's tag without calling a revert of either child, and
\* create_directory stays marked Completed with its directory in place.
C10_NoRollbackInExecute ==
    /\ TraceOp = "execute" =>
          \A i \in DOMAIN trace : trace[i][2] \notin {"try_revert", "revert"}
    /\ FailedAtFile =>
          /\ ~result.value.ok
          /\ result.value.err[2] = "create_file"
          /\ self["create_directory"].state = "Completed"
          /\ fs.dir.exists

C10_Witness ==
    /\ FailedAtFile
    /\ Has(<<"create_directory", "execute", "ok">>)
    /\ ~fs.file.exists

\* A revert in which create_file's try_revert has failed.
FailedAtFileRevert ==
    /\ TraceOp = "revert"
    /\ Has(<<"create_file", "try_revert", "err">>)

\* C11 as claimed: when create_file's try_revert fails during revert, the
\* failure is returned with create_file's tag and the revert of create_directory
\* is still attempted in the same call.
C11_AsClaimed ==
    (Returned /\ FailedAtFileRevert) =>
        /\ ~result.value.ok
        /\ result.value.err[2] = "create_file"
        /\ Has(<<"create_directory", "try_revert", "call">>)

\* C11 amended: when create_file's try_revert fails during revert, revert stops
\* there: the failure is returned with create_file's tag and create_file's error
\* unchanged, create_directory's try_revert is not attempted in that call, and
\* both children keep the markers and the paths they had when revert was called.
C11_RevertStopsAtFirstFailure ==
    FailedAtFileRevert =>
        /\ ~Has(<<"create_directory", "try_revert", "call">>)
        /\ ~Has(<<"create_directory", "revert", "begin">>)
        /\ \A c \in Children : self[c].state = pre.state[c]
        /\ fs = pre.fs
        /\ next.kind = "return" => ~next.value.ok
        /\ Returned =>
              /\ ~result.value.ok
              /\ result.value.err = <<"Child", "create_file", failed.err>>

C11_Witness ==
    /\ Returned
    /\ FailedAtFileRevert
    /\ self["create_directory"].state = "Completed"
    /\ fs.dir.exists
    /\ fs.file.exists

\* Between two calls on a planned composite.
BetweenCalls == frame.op = "none" /\ wrapper.planned

BothCompleted == \A c \in Children : self[c].state = "Completed"

\* C12: between calls, after any sequence of try_execute and try_revert on the
\* composite's wrapper, the wrapper's marker is Completed if and only if both
\* create_directory and create_file are marked Completed.
C12_DerivedCompletion ==
    BetweenCalls => ((wrapper.state = "Completed") = BothCompleted)

RevertAfterFailedTryExecute ==
    /\ Returned
    /\ result.op = "revert"
    /\ result.via = "wrapper"
    /\ pre.prev = [status |-> "returned", op |-> "execute", via |-> "wrapper", ok |-> FALSE]
    /\ pre.state["create_directory"] = "Completed"

\* C14: a try_revert on the wrapper that follows a try_execute which failed
\* after create_directory was marked Completed is not skipped: it runs revert,
\* calls create_directory's inner revert and, when it returns Ok, leaves no child
\* marked Completed.
C14_TryRevertAfterPartialExecute ==
    RevertAfterFailedTryExecute =>
        /\ result.ran
        /\ Has(<<"create_directory", "revert", "begin">>)
        /\ result.value.ok => NoChildCompleted

\* A revert (the method, or try_revert on the wrapper) called on a freshly
\* planned composite: no child has been executed.
FreshPre ==
    /\ \A c \in Children : pre.state[c] = "NotStarted"
    /\ pre.wrapper = "NotStarted"

\* C15: revert on a freshly planned composite whose children were never executed
\* calls the inner revert of neither child, returns Ok and leaves every
\* completion marker and the file system as they were.
C15_RevertBeforeExecuteIsNoOp ==
    /\ (TraceOp = "revert" /\ FreshPre) =>
          \A c \in Children : ~Has(<<c, "revert", "begin">>)
    /\ (Returned /\ result.op = "revert" /\ FreshPre) =>
          /\ result.value.ok
          /\ \A c \in Children : self[c].state = pre.state[c]
          /\ wrapper.state = pre.wrapper
          /\ fs = pre.fs

C15_Witness ==
    /\ Returned
    /\ result.op = "revert"
    /\ result.via = "direct"
    /\ FreshPre
    /\ pre.prev.op = "plan"
    /\ Len(trace) = 4

\* C16: in every state of a planned composite, whatever execute and revert
\* calls were made and whatever failed, create_file is marked Completed only if
\* create_directory is, and the file is on disk only if the directory is.
C16_FileNeedsDirectory ==
    wrapper.planned =>
        /\ self["create_file"].state = "Completed" =>
              self["create_directory"].state = "Completed"
        /\ fs.file.exists => fs.dir.exists

C16_Witness ==
    /\ frame.op = "revert"
    /\ child.phase = "inflight"
    /\ child.name = "create_directory"
    /\ self["create_file"].state = "Reverted"
    /\ self["create_directory"].state = "Completed"
    /\ fs.dir.exists
    /\ ~fs.file.exists

\* A revert called after an earlier revert undid create_file and failed at
\* create_directory: create_file is Reverted, create_directory still Completed.
ResumedRevert ==
    /\ TraceOp = "revert"
    /\ pre.state["create_file"] = "Reverted"
    /\ pre.state["create_directory"] = "Completed"

\* C17: a revert repeated after one that failed at create_directory with
\* create_file already reverted does not call create_file's inner revert again
\* and, by the time it returns, has retried create_directory's; it returns Ok
\* exactly when that retry succeeded, and every revert that returns Ok leaves
\* neither child marked Completed.
C17_RevertResumable ==
    /\ ResumedRevert =>
          /\ ~Has(<<"create_file", "revert", "begin">>)
          /\ Returned =>
                /\ Has(<<"create_directory", "revert", "begin">>)
                /\ result.value.ok = Has(<<"create_directory", "revert", "ok">>)
    /\ (Returned /\ TraceOp = "revert" /\ result.value.ok) =>
          /\ NoChildCompleted
          /\ ~fs.dir.exists
          /\ ~fs.file.exists

C17_Witness ==
    /\ ResumedRevert
    /\ Returned
    /\ result.value.ok
    /\ pre.prev = [status |-> "returned", op |-> "revert", via |-> "direct", ok |-> FALSE]
    /\ self["create_directory"].state = "Reverted"

====
